---- MODULE Spec2Model ----
(***************************************************************************)
(* ExpoImage / ExpoImageBackground (app/components/expo_image/index.tsx):  *)
(* the resolution of an image's source and placeholder descriptors from    *)
(* the caller's props, the active server url and the server's request      *)
(* headers, render after render.                                           *)
(*                                                                         *)
(* Text is a sequence of tokens ("https", "://", host, port, path pieces). *)
(* The tokens are chosen so that a text begins with '/api/v4/' exactly     *)
(* when its first path token is "/api/v4/", and ends with '-thumb' exactly *)
(* when its last token is "-thumb".                                        *)
(***************************************************************************)
EXTENDS Integers, Sequences, FiniteSets, TLC

VARIABLES
    component,      \* which component this instance is
    mounted,        \* FALSE until the first render
    serverUrl,      \* useServerUrl(): the active server identity
    clients,        \* NetworkManager: the server urls that have a client
    given,          \* the props objects as the caller handed them to the last render
    props,          \* the same objects after that render (the heap)
    requestHeaders, \* the memoized requestHeaders of ExpoImage
    lookup,         \* how the memoized requestHeaders were obtained: "ok", "threw", "none" (not yet)
    source,         \* the source handed to Image / ImageBackground
    placeholder     \* the placeholder handed to Image / ImageBackground

vars == <<component, mounted, serverUrl, clients, given, props, requestHeaders,
          lookup, source, placeholder>>

-----------------------------------------------------------------------------
(* JavaScript values *)

Undefined == [t |-> "undefined"]
Str(s) == [t |-> "string", v |-> s]
Num(n) == [t |-> "number", v |-> n]
Obj(f) == [t |-> "object", v |-> f]

NoFields == [k \in {} |-> Undefined]

\* if (x), !x, x && y
Truthy(x) ==
    CASE x.t = "undefined" -> FALSE
      [] x.t = "string" -> Len(x.v) > 0
      [] x.t = "number" -> x.v # 0
      [] OTHER -> TRUE

\* x?.k
Get(x, k) == IF x.t = "object" /\ k \in DOMAIN x.v THEN x.v[k] ELSE Undefined

Has(x, k) == x.t = "object" /\ k \in DOMAIN x.v

Fields(x) == IF x.t = "object" THEN x.v ELSE NoFields

\* {...a, ...b}: the later entries win
Spread(a, b) ==
    Obj([k \in DOMAIN Fields(a) \cup DOMAIN Fields(b) |->
            IF k \in DOMAIN Fields(b) THEN Fields(b)[k] ELSE Fields(a)[k]])

\* delete x?.k
Delete(x, k) ==
    IF x.t = "object" THEN Obj([j \in DOMAIN x.v \ {k} |-> x.v[j]]) ELSE x

-----------------------------------------------------------------------------
(* URL *)

Schemes == {"http", "https"}
PortTokens == {":80", ":443", ":8065"}
DefaultPort(scheme) == IF scheme = "https" THEN ":443" ELSE ":80"

\* new URL(text): throws (ok = FALSE) on a text that is no absolute url;
\* origin is scheme, host and the port unless it is the scheme's default;
\* pathname is "/" when the text has no path.
ParseURL(text) ==
    IF Len(text) >= 3 /\ text[1] \in Schemes /\ text[2] = "://"
    THEN LET hasPort == Len(text) >= 4 /\ text[4] \in PortTokens
             port == IF hasPort /\ text[4] # DefaultPort(text[1]) THEN text[4] ELSE ""
             rest == SubSeq(text, IF hasPort THEN 5 ELSE 4, Len(text))
         IN  [ok |-> TRUE,
              origin |-> <<text[1], text[3], port>>,
              pathname |-> IF rest = <<>> THEN <<"/">> ELSE rest]
    ELSE [ok |-> FALSE, origin |-> <<>>, pathname |-> <<>>]

ApiPrefix == <<"/api/v4/">>

StartsWith(text, prefix) ==
    Len(text) >= Len(prefix) /\ SubSeq(text, 1, Len(prefix)) = prefix

EndsWith(text, suffix) ==
    Len(text) >= Len(suffix)
    /\ SubSeq(text, Len(text) - Len(suffix) + 1, Len(text)) = suffix

\* the path is checked, the origin is not
shouldAttachAnyOrigin(uri, url) ==
    IF ~Truthy(uri)
    THEN FALSE
    ELSE LET requestUrl == ParseURL(uri.v)
             serverBaseUrl == ParseURL(url)
         IN  IF ~requestUrl.ok \/ ~serverBaseUrl.ok
             THEN FALSE
             ELSE StartsWith(requestUrl.pathname, ApiPrefix)

shouldAttachServerAuthHeaders(uri, url) ==
    IF ~Truthy(uri)
    THEN FALSE
    ELSE LET requestUrl == ParseURL(uri.v)
             serverBaseUrl == ParseURL(url)
         IN  IF ~requestUrl.ok \/ ~serverBaseUrl.ok
             THEN FALSE
             ELSE IF requestUrl.origin # serverBaseUrl.origin
                  THEN FALSE
                  ELSE StartsWith(requestUrl.pathname, ApiPrefix)

-----------------------------------------------------------------------------
(* Collaborators *)

ServerA == <<"https", "://", "a.example.com">>
ServerB == <<"https", "://", "b.example.com">>
ServerBad == <<"not a url">>
ServerUrls == {ServerA, ServerB, ServerBad}
ClientUrls == {ServerA, ServerB}

Token(url) == IF url = ServerA THEN "Bearer A" ELSE "Bearer B"
ServerTokens == {Token(u) : u \in ClientUrls}

\* client.getRequestHeaders('GET')
getRequestHeaders(url) ==
    Obj([Accept |-> "application/json", Authorization |-> Token(url)])

\* urlSafeBase64Encode(text): an injective, url-safe encoding
urlSafeBase64Encode(text) == Str(<<"b64url">> \o text)

-----------------------------------------------------------------------------
(* Inputs *)

MaxThumbSuffixes == 1

RECURSIVE Thumbs(_)
Thumbs(n) == IF n = 0 THEN <<>> ELSE Thumbs(n - 1) \o <<"-thumb">>

\* the ids a caller passes: none, '', 'img', 'img-thumb', ...
Ids == {Undefined, Str(<<>>)}
         \cup {Str(<<"img">> \o Thumbs(n)) : n \in 0..MaxThumbSuffixes}

CachePolicies == {"memory", "disk"}

UriApi == Str(ServerA \o <<"/api/v4/", "files/1">>)
UriApiPort == Str(ServerA \o <<":443", "/api/v4/", "files/1">>)
UriStatic == Str(ServerA \o <<"/static/", "logo.png">>)
UriOther == Str(ServerB \o <<"/api/v4/", "files/1">>)
UriPort == Str(ServerA \o <<":8065", "/api/v4/", "files/1">>)
UriHttp == Str(<<"http", "://", "a.example.com", "/api/v4/", "files/1">>)
UriBad == Str(<<"files/1">>)

HAccept == Obj([Accept |-> "image/png"])
HOwn == Obj([Accept |-> "image/png", Authorization |-> "Bearer caller"])

Asset == Num(7)
BlurHash == Str(<<"LEHV6nWB2yk8">>)

SourceObjects ==
    {Obj([uri |-> u]) : u \in {UriApi, UriApiPort, UriStatic, UriOther, UriPort, UriHttp,
                                UriBad}}
      \cup {Obj([uri |-> u, headers |-> h]) : u \in {UriApi, UriOther}, h \in {HAccept, HOwn}}
      \cup {Obj([headers |-> HAccept])}

Sources == {Asset, Undefined} \cup SourceObjects

PlaceholderObjects ==
    {Obj([uri |-> u, headers |-> HAccept]) : u \in {UriApi, UriOther}}
      \cup {Obj([uri |-> UriApi]), Obj([headers |-> HAccept])}

Placeholders == {Undefined, Asset, BlurHash} \cup PlaceholderObjects

Components == {"ExpoImage", "ExpoImageBackground"}

-----------------------------------------------------------------------------
(* ExpoImage *)

\* const requestHeaders = useMemo(() => {try {...} catch {return undefined}}, [serverUrl])
\* the headers are built whether or not the server has a client
LookupWithoutClient(url, registry) == getRequestHeaders(url)

LookupRequestHeaders(url, registry) ==
    IF url \in registry THEN getRequestHeaders(url) ELSE Undefined

MemoHit(isMounted, prevUrl, url) == isMounted /\ prevUrl = url

\* an empty dependency list: the headers of the first render are kept for good
UseRequestHeadersOnce(isMounted, prevUrl, prev, url, registry) ==
    IF isMounted THEN prev ELSE LookupRequestHeaders(url, registry)

UseRequestHeaders(isMounted, prevUrl, prev, url, registry) ==
    IF MemoHit(isMounted, prevUrl, url) THEN prev ELSE LookupRequestHeaders(url, registry)

\* whether the try block returned or the catch block did
LookupOutcome(isMounted, prevUrl, prev, url, registry) ==
    IF MemoHit(isMounted, prevUrl, url) THEN prev
    ELSE IF url \in registry THEN "ok" ELSE "threw"

\* const cachePath = useMemo(() => urlSafeBase64Encode(serverUrl), [serverUrl])
CachePath(url) == urlSafeBase64Encode(url)

\* shouldAttachServerAuthHeaders(o?.uri, serverUrl) && requestHeaders
Attach(o, rh, url) == shouldAttachServerAuthHeaders(Get(o, "uri"), url) /\ Truthy(rh)

\* ... ? {...requestHeaders, ...o?.headers} : o?.headers
MergedHeaders(o, rh, url) ==
    IF Attach(o, rh, url) THEN Spread(rh, Get(o, "headers")) ELSE Get(o, "headers")

\* the delete is left out
KeptHeaders(o, rh, url) == MergedHeaders(o, rh, url)

\* delete sourceHeaders?.Accept: the value of sourceHeaders afterwards
StrippedHeaders(o, rh, url) == Delete(MergedHeaders(o, rh, url), "Accept")

\* the caller's object o after the delete: without auth headers, sourceHeaders is
\* o.headers itself, and the delete removes the entry from the caller's object
AfterDelete(o, rh, url) ==
    IF o.t = "object" /\ ~Attach(o, rh, url) /\ Has(o, "headers")
    THEN Obj([o.v EXCEPT !.headers = Delete(@, "Accept")])
    ELSE o

primaryCacheKey(id) == id

\* the suffix is left out
placeholderCacheKeyUnsuffixed(id) == id

\* `${id}-thumb`
placeholderCacheKey(id) == Str(id.v \o <<"-thumb">>)

IsPassedThrough(ph) == ~Truthy(ph) \/ ph.t = "number" \/ ph.t = "string"

\* the id is tested with id !== undefined, so '' counts as an id
ImageSourceDefinedId(src, id, cachePath, rh, url) ==
    IF src.t = "number"
    THEN src
    ELSE IF id.t # "undefined"
         THEN Spread(src, Obj([headers |-> StrippedHeaders(src, rh, url),
                               cacheKey |-> primaryCacheKey(id),
                               cachePath |-> cachePath]))
         ELSE Spread(src, Obj([headers |-> StrippedHeaders(src, rh, url)]))

ImageSource(src, id, cachePath, rh, url) ==
    IF src.t = "number"
    THEN src
    ELSE IF Truthy(id)
         THEN Spread(src, Obj([headers |-> StrippedHeaders(src, rh, url),
                               cacheKey |-> primaryCacheKey(id),
                               cachePath |-> cachePath]))
         ELSE Spread(src, Obj([headers |-> StrippedHeaders(src, rh, url)]))

ImagePlaceholder(ph, id, cachePath, rh, url) ==
    IF IsPassedThrough(ph)
    THEN ph
    ELSE IF Truthy(Get(ph, "uri")) /\ Truthy(id)
         THEN Spread(ph, Obj([headers |-> StrippedHeaders(ph, rh, url),
                              cacheKey |-> placeholderCacheKey(id),
                              cachePath |-> cachePath]))
         ELSE Spread(ph, Obj([headers |-> StrippedHeaders(ph, rh, url)]))

\* the placeholder's headers follow the decision taken for the source's uri
ExpoImageSharedDecision(p, rh, url) ==
    [source |-> ImageSource(p.source, p.id, CachePath(url), rh, url),
     placeholder |->
        IF IsPassedThrough(p.placeholder)
        THEN p.placeholder
        ELSE Spread(ImagePlaceholder(p.placeholder, p.id, CachePath(url), rh, url),
                    Obj([headers |->
                            Delete(IF Attach(p.source, rh, url)
                                   THEN Spread(rh, Get(p.placeholder, "headers"))
                                   ELSE Get(p.placeholder, "headers"), "Accept")])),
     heap |-> [p EXCEPT !.source = AfterDelete(@, rh, url),
                        !.placeholder = IF IsPassedThrough(@) THEN @
                                        ELSE AfterDelete(@, rh, url)]]

\* the source and the placeholder of one render, and the caller's objects after it
ExpoImage(p, rh, url) ==
    [source |-> ImageSource(p.source, p.id, CachePath(url), rh, url),
     placeholder |-> ImagePlaceholder(p.placeholder, p.id, CachePath(url), rh, url),
     heap |-> [p EXCEPT !.source = AfterDelete(@, rh, url),
                        !.placeholder = IF IsPassedThrough(@) THEN @
                                        ELSE AfterDelete(@, rh, url)]]

-----------------------------------------------------------------------------
(* ExpoImageBackground *)

\* the typeof props.source === 'number' test is left out
BackgroundSourceUnchecked(src, id, cachePath) ==
    IF Truthy(id)
    THEN Spread(src, Obj([cacheKey |-> primaryCacheKey(id), cachePath |-> cachePath]))
    ELSE src

BackgroundSource(src, id, cachePath) ==
    IF src.t = "number"
    THEN src
    ELSE IF Truthy(id)
         THEN Spread(src, Obj([cacheKey |-> primaryCacheKey(id), cachePath |-> cachePath]))
         ELSE src

BackgroundPlaceholder(ph, id, cachePath) ==
    IF IsPassedThrough(ph)
    THEN ph
    ELSE IF Truthy(Get(ph, "uri")) /\ Truthy(id)
         THEN Spread(ph, Obj([cacheKey |-> placeholderCacheKey(id), cachePath |-> cachePath]))
         ELSE ph

ExpoImageBackground(p, url) ==
    [source |-> BackgroundSource(p.source, p.id, CachePath(url)),
     placeholder |-> BackgroundPlaceholder(p.placeholder, p.id, CachePath(url)),
     heap |-> p]

-----------------------------------------------------------------------------
(* Renders *)

Init ==
    /\ component \in Components
    /\ mounted = FALSE
    /\ serverUrl = ServerA
    /\ clients \in SUBSET ClientUrls
    /\ props = [source |-> Asset, placeholder |-> Undefined, id |-> Undefined,
                cachePolicy |-> "disk"]
    /\ given = props
    /\ requestHeaders = Undefined
    /\ lookup = "none"
    /\ source = Undefined
    /\ placeholder = Undefined

\* One run of the component function with props p under server url.
\* requestHeaders is memoized on [serverUrl] alone and is kept across renders while
\* NetworkManager may change. The dependency lists of cachePath, source and
\* placeholder name every value their functions read, and the delete is idempotent,
\* so their memoized values equal the recomputed ones.
Render(p, url) ==
    /\ mounted' = TRUE
    /\ serverUrl' = url
    /\ given' = p
    /\ UNCHANGED <<component, clients>>
    /\ IF component = "ExpoImage"
       THEN \E rh \in {UseRequestHeaders(mounted, serverUrl, requestHeaders, url, clients)} :
            \E out \in {ExpoImage(p, rh, url)} :
                /\ requestHeaders' = rh
                /\ lookup' = LookupOutcome(mounted, serverUrl, lookup, url, clients)
                /\ source' = out.source
                /\ placeholder' = out.placeholder
                /\ props' = out.heap
       ELSE \E out \in {ExpoImageBackground(p, url)} :
                /\ UNCHANGED <<requestHeaders, lookup>>
                /\ source' = out.source
                /\ placeholder' = out.placeholder
                /\ props' = out.heap

\* the parent renders with a new source object
SetSource == \E s \in Sources : Render([props EXCEPT !.source = s], serverUrl)

SetPlaceholder == \E ph \in Placeholders : Render([props EXCEPT !.placeholder = ph], serverUrl)

SetId == \E i \in Ids : Render([props EXCEPT !.id = i], serverUrl)

SetCachePolicy == \E c \in CachePolicies : Render([props EXCEPT !.cachePolicy = c], serverUrl)

\* the parent renders with the objects it passed before
Rerender == Render(props, serverUrl)

\* the active server changes; the context renders its consumers
SwitchServer == mounted /\ \E u \in ServerUrls \ {serverUrl} : Render(props, u)

\* NetworkManager gains or loses a client; no render follows from it
CreateClient ==
    /\ \E u \in ClientUrls \ clients : clients' = clients \cup {u}
    /\ UNCHANGED <<component, mounted, serverUrl, given, props, requestHeaders,
                   lookup, source, placeholder>>

InvalidateClient ==
    /\ \E u \in clients : clients' = clients \ {u}
    /\ UNCHANGED <<component, mounted, serverUrl, given, props, requestHeaders,
                   lookup, source, placeholder>>

Next ==
    \/ SetSource
    \/ SetPlaceholder
    \/ SetId
    \/ SetCachePolicy
    \/ Rerender
    \/ SwitchServer
    \/ CreateClient
    \/ InvalidateClient

Spec == Init /\ [][Next]_vars

-----------------------------------------------------------------------------
(* Vocabulary of the properties *)

\* the request uri parses, the server url parses, their origins are equal and the
\* request path begins with '/api/v4/'
SameOriginApi(uri, url) ==
    /\ uri.t = "string"
    /\ ParseURL(uri.v).ok
    /\ ParseURL(url).ok
    /\ ParseURL(uri.v).origin = ParseURL(url).origin
    /\ StartsWith(ParseURL(uri.v).pathname, ApiPrefix)

HeadersOf(o) == Fields(Get(o, "headers"))

\* the resolved descriptor carries a token some server's client issues
CarriesServerToken(resolved) ==
    \E k \in DOMAIN HeadersOf(resolved) : HeadersOf(resolved)[k] \in ServerTokens

\* the caller's object and what the render resolved it to
Resolutions == {<<given.source, source>>, <<given.placeholder, placeholder>>}

Image == mounted /\ component = "ExpoImage"

TruthyIds == {i \in Ids : Truthy(i)}

-----------------------------------------------------------------------------
(* C1 *)

\* C1: for every source or placeholder object ExpoImage resolves, each entry of the
\* server's request headers (other than Accept, and unless the caller supplies that
\* key itself) is in the resolved headers exactly when the uri's origin equals the
\* server's origin and the path begins with '/api/v4/'; a uri that is absent,
\* unparsable, of another origin or outside '/api/v4/', or an unparsable server url,
\* never gets a server token.
C1_AuthIffSameOriginApi ==
    Image =>
        \A r \in Resolutions :
            r[1].t = "object" =>
                /\ \A k \in DOMAIN Fields(requestHeaders)
                              \ ({"Accept"} \cup DOMAIN HeadersOf(r[1])) :
                       (k \in DOMAIN HeadersOf(r[2])
                            /\ HeadersOf(r[2])[k] = requestHeaders.v[k])
                         <=> SameOriginApi(Get(r[1], "uri"), serverUrl)
                /\ ~SameOriginApi(Get(r[1], "uri"), serverUrl) => ~CarriesServerToken(r[2])

C1_Witness ==
    /\ Image
    /\ Get(given.source, "uri") = UriApiPort
    /\ "Authorization" \in DOMAIN HeadersOf(source)
    /\ HeadersOf(source)["Authorization"] = Token(serverUrl)
    /\ Get(given.placeholder, "uri") = UriOther
    /\ ~CarriesServerToken(placeholder)

-----------------------------------------------------------------------------
(* C2 *)

\* C2: when the source uri qualifies for the auth headers and the placeholder uri
\* does not, every entry of the resolved placeholder's headers is an entry of the
\* placeholder's own caller-supplied headers.
C2_PlaceholderDecidedAlone ==
    (/\ Image
     /\ given.source.t = "object"
     /\ given.placeholder.t = "object"
     /\ SameOriginApi(Get(given.source, "uri"), serverUrl)
     /\ ~SameOriginApi(Get(given.placeholder, "uri"), serverUrl))
    => \A k \in DOMAIN HeadersOf(placeholder) :
           /\ k \in DOMAIN HeadersOf(given.placeholder)
           /\ HeadersOf(placeholder)[k] = HeadersOf(given.placeholder)[k]

C2_Witness ==
    /\ Image
    /\ CarriesServerToken(source)
    /\ SameOriginApi(Get(given.source, "uri"), serverUrl)
    /\ given.placeholder = Obj([uri |-> UriOther, headers |-> HAccept])
    /\ Has(placeholder, "headers")
    /\ ~CarriesServerToken(placeholder)

-----------------------------------------------------------------------------
(* C3 *)

\* C3: under cachePolicy 'memory' a source or placeholder with a uri is resolved
\* with neither cacheKey nor cachePath, whatever the id.
C3_MemoryOnlyHasNoCacheCoordinates ==
    (Image /\ given.cachePolicy = "memory") =>
        \A r \in Resolutions :
            Has(r[1], "uri") => ~Has(r[2], "cacheKey") /\ ~Has(r[2], "cachePath")

-----------------------------------------------------------------------------
(* C4 *)

\* C4 as stated: the placeholder cache key derived from the id of a render equals
\* the primary cache key of no id a caller may pass.
C4_PlaceholderKeyIsNoPrimaryKey ==
    (mounted /\ Has(placeholder, "cacheKey")) =>
        \A j \in TruthyIds : placeholder.v.cacheKey # primaryCacheKey(j)

\* C4 amended: the placeholder cache key derived from id i equals the primary cache
\* key of id j only when j is i followed by '-thumb'; it is never the primary key
\* of i itself, nor of any j that does not end in '-thumb'.
C4_PlaceholderKeyCollidesOnlyWithThumbId ==
    (mounted /\ Has(placeholder, "cacheKey")) =>
        \A j \in TruthyIds :
            /\ placeholder.v.cacheKey = primaryCacheKey(j)
                  => j.v = given.id.v \o <<"-thumb">>
            /\ (j = given.id \/ ~EndsWith(j.v, <<"-thumb">>))
                  => placeholder.v.cacheKey # primaryCacheKey(j)

C4_Witness ==
    /\ mounted
    /\ given.id = Str(<<"img">>)
    /\ Has(placeholder, "cacheKey")
    /\ Has(source, "cacheKey")
    /\ source.v.cacheKey = primaryCacheKey(given.id)
    /\ placeholder.v.cacheKey # source.v.cacheKey
    /\ placeholder.v.cachePath = source.v.cachePath

-----------------------------------------------------------------------------
(* C5 *)

\* C5: the headers of a source or placeholder object ExpoImage resolves hold no
\* Accept entry, whether the Accept came from the server's request headers or from
\* the caller's.
C5_NoAcceptHeader ==
    Image =>
        \A r \in {source, placeholder} :
            r.t = "object" => "Accept" \notin DOMAIN HeadersOf(r)

C5_Witness ==
    /\ Image
    /\ "Accept" \in DOMAIN Fields(requestHeaders)
    /\ given.source = Obj([uri |-> UriApi, headers |-> HAccept])
    /\ CarriesServerToken(source)
    /\ given.placeholder = Obj([uri |-> UriOther, headers |-> HAccept])
    /\ HeadersOf(placeholder) = NoFields

-----------------------------------------------------------------------------
(* C6 *)

\* C6: after a render the caller's source and placeholder objects hold the headers
\* they held when the caller passed them.
C6_CallerHeadersUntouched ==
    Image =>
        /\ Get(props.source, "headers") = Get(given.source, "headers")
        /\ Get(props.placeholder, "headers") = Get(given.placeholder, "headers")

-----------------------------------------------------------------------------
(* C7 *)

\* C7: under a policy other than 'memory', a source object with a uri is resolved
\* with cacheKey = id and cachePath = urlSafeBase64Encode(serverUrl) when the id is a
\* non-empty string, and otherwise with its uri and its own headers (Accept aside)
\* and neither cacheKey nor cachePath; the render completes either way.
C7_CacheCoordinatesIffId ==
    (/\ mounted
     /\ given.cachePolicy # "memory"
     /\ Has(given.source, "uri"))
    => /\ source.t = "object"
       /\ Get(source, "uri") = given.source.v.uri
       /\ \A k \in DOMAIN HeadersOf(given.source) \ {"Accept"} :
              /\ k \in DOMAIN HeadersOf(source)
              /\ HeadersOf(source)[k] = HeadersOf(given.source)[k]
       /\ IF given.id.t = "string" /\ Len(given.id.v) > 0
          THEN /\ Get(source, "cacheKey") = given.id
               /\ Get(source, "cachePath") = urlSafeBase64Encode(serverUrl)
          ELSE ~Has(source, "cacheKey") /\ ~Has(source, "cachePath")

C7_Witness ==
    /\ mounted
    /\ given.cachePolicy = "disk"
    /\ given.id = Str(<<"img", "-thumb">>)
    /\ given.source = Obj([uri |-> UriOther, headers |-> HOwn])
    /\ Get(source, "cacheKey") = given.id
    /\ serverUrl = ServerA
    /\ Get(source, "cachePath") = urlSafeBase64Encode(ServerA)

-----------------------------------------------------------------------------
(* C8 *)

\* C8: whatever renders came before, the cachePath of the descriptors of the last
\* render is the encoding of the server url of that render, and a server token in
\* their headers is the token of that server's client.
C8_DescriptorsOfCurrentServer ==
    mounted =>
        \A r \in {source, placeholder} :
            /\ Has(r, "cachePath") => r.v.cachePath = urlSafeBase64Encode(serverUrl)
            /\ \A k \in DOMAIN HeadersOf(r) :
                   HeadersOf(r)[k] \in ServerTokens => HeadersOf(r)[k] = Token(serverUrl)

\* the session began on ServerA and rendered there before the server changed
C8_Witness ==
    /\ Image
    /\ serverUrl = ServerB
    /\ lookup = "ok"
    /\ Get(given.source, "uri") = UriOther
    /\ "Authorization" \in DOMAIN HeadersOf(source)
    /\ HeadersOf(source)["Authorization"] = Token(ServerB)
    /\ Get(source, "cachePath") = urlSafeBase64Encode(ServerB)
    /\ Get(given.placeholder, "uri") = UriApi
    /\ ~CarriesServerToken(placeholder)

-----------------------------------------------------------------------------
(* C9 *)

\* C9: when the lookup of the active server's client threw, requestHeaders is
\* resolved to undefined, the render completes with an object for every object the
\* caller passed, and the descriptors carry no server token, also for a uri of the
\* server's origin under '/api/v4/'.
C9_MissingClientMeansNoHeaders ==
    (Image /\ lookup = "threw") =>
        /\ requestHeaders = Undefined
        /\ \A r \in Resolutions :
               /\ ~CarriesServerToken(r[2])
               /\ r[1].t = "object" => r[2].t = "object"

C9_Witness ==
    /\ Image
    /\ lookup = "threw"
    /\ serverUrl = ServerA
    /\ given.source = Obj([uri |-> UriApi, headers |-> HAccept])
    /\ source = Obj([uri |-> UriApi, headers |-> Obj(NoFields)])
    /\ Get(given.placeholder, "uri") = UriApi

-----------------------------------------------------------------------------
(* C10 *)

\* C10: a source that is a bundled asset handle (a number) is resolved to that same
\* handle by ExpoImage and by ExpoImageBackground, for every id, server url and
\* cache policy.
C10_AssetPassedThrough ==
    (mounted /\ given.source.t = "number") => source = given.source

C10_Witness ==
    /\ mounted
    /\ component = "ExpoImageBackground"
    /\ given.source = Asset
    /\ given.id = Str(<<"img">>)
    /\ given.cachePolicy = "disk"
    /\ serverUrl = ServerB
    /\ source = Asset

====
